---- MODULE Spec2Model ----
(***************************************************************************)
(* Flight-deck backend: the command-to-state pipeline of backend/main.py   *)
(* (domain model, _merge_ui_state, _call_agent, adjust_ui) and of          *)
(* backend/agent.py (extract_json_from_response, parse_agent_response,     *)
(* call_agent).                                                            *)
(*                                                                         *)
(* Python values are represented as follows.  A JSON object / keyword      *)
(* dictionary is a function whose DOMAIN is the set of keys present.       *)
(* Python None in a string-valued field is the string None.  A float       *)
(* scale is kept as its decimal text.                                      *)
(***************************************************************************)
EXTENDS Integers, Sequences, FiniteSets, TLC

VARIABLES
    \* ---- one adjust_ui request (main.py) ----
    pc,            \* "request" (payload received) or "responded"
    payload,       \* the request body: [command, current_ui] as parsed JSON
    llm,           \* TRUE iff the module-level llm handle is not None
    model_output,  \* what llm.invoke did for this request
    merge_calls,   \* number of calls of _merge_ui_state made by the handler
    response,      \* what the caller gets back
    \* ---- one call of extract_json_from_response (agent.py) ----
    xpc,            \* "input" (called) or "returned"; "off" in the other specs
    raw_content,    \* the argument raw_content, a sequence of text tokens
    is_local_model, \* the argument is_local_model
    extracted,      \* the returned text
    \* ---- one call of call_agent (agent.py) ----
    apc,            \* "called", "invoking" (inside llm.invoke), "returned", "raised"
    a_llm,          \* TRUE iff the argument llm is not None
    a_local,        \* the argument is_local_model
    a_response,     \* what llm.invoke did
    invoke_count,   \* calls of llm.invoke made by this call of call_agent
    stages,         \* the pipeline stages this call has entered, in order
    a_outcome,      \* the HTTPException raised or the AgentResult returned
    \* ---- the serving layer: adjust_ui coroutines on the event loop (main.py) ----
    spc,            \* per request: "new", "awaiting_body", "invoking", "done"
    running,        \* the request whose code occupies the event-loop thread, or 0
    s_status        \* per request: the HTTP status answered, 0 before

requestVars == <<pc, payload, llm, model_output, merge_calls, response>>
extractVars == <<xpc, raw_content, is_local_model, extracted>>
agentVars == <<apc, a_llm, a_local, a_response, invoke_count, stages, a_outcome>>
serveVars == <<spc, running, s_status>>
vars == <<requestVars, extractVars, agentVars, serveVars>>

(***************************************************************************)
(* Bounds of the model.                                                    *)
(***************************************************************************)
MaxPrior == 2      \* longest component list of a request's current_ui
MaxProposal == 2   \* longest component list of a model's updatedConfig
MaxLen == 5        \* longest raw_content given to extract_json_from_response
MaxRaw == 6        \* longest model output given to call_agent
NumRequests == 3   \* requests in flight on the serving layer

None == "None"
NoConfig == [none |-> TRUE]    \* Python None where a UIState is expected

(***************************************************************************)
(* Domain model (main.py 88-137).                                          *)
(***************************************************************************)
COMPONENT_METADATA ==
    [altitude |-> [label |-> "Altitude (ft)",  isCore |-> TRUE],
     airspeed |-> [label |-> "Airspeed (mph)", isCore |-> TRUE],
     rpm      |-> [label |-> "Engine RPM",     isCore |-> TRUE],
     phase    |-> [label |-> "Flight Phase",   isCore |-> TRUE],
     fuel     |-> [label |-> "Fuel Level (%)", isCore |-> FALSE]]

ComponentIds == {"rpm", "altitude", "airspeed", "phase", "fuel"}
Zones == {"primary", "secondary"}
Themes == {"dark", "light"}
VisualizationTypes == {"text", "bar", "ring"}
Scales == {"0.5", "1.0", "1.5", "2.0"}    \* the decimals of [0.5, 2.0] used here

Fields == {"id", "label", "visible", "zone", "order", "color", "bgColor",
           "scale", "isCore", "visualizationType"}

Has(d, k) == k \in DOMAIN d
GetOr(d, k, default) == IF Has(d, k) THEN d[k] ELSE default

\* @validator("isCore", always=True)
set_is_core(value, component_id) ==
    IF value # None THEN value = "True"
    ELSE COMPONENT_METADATA[component_id].isCore

\* @validator("label", always=True): `if value:` is false for None and for ""
set_label(value, component_id) ==
    IF value # None /\ value # "" THEN value
    ELSE COMPONENT_METADATA[component_id].label

\* Does ComponentConfig(**raw) validate?  Required: id, visible, zone, order.
ComponentValid(raw) ==
    /\ Has(raw, "id") /\ raw.id \in ComponentIds
    /\ Has(raw, "visible") /\ raw.visible \in BOOLEAN
    /\ Has(raw, "zone") /\ raw.zone \in Zones
    /\ Has(raw, "order") /\ raw.order \in Int
    /\ GetOr(raw, "scale", "1.0") \in Scales \cup {None}
    /\ GetOr(raw, "visualizationType", None) \in VisualizationTypes \cup {None}

\* ComponentConfig(**raw) for a raw that validates: every field gets a value.
\* A raw isCore is TRUE/FALSE; it is passed to the validator as "True"/"False".
ComponentConfig(raw) ==
    [id                |-> raw.id,
     label             |-> set_label(GetOr(raw, "label", None), raw.id),
     visible           |-> raw.visible,
     zone              |-> raw.zone,
     order             |-> raw.order,
     color             |-> GetOr(raw, "color", None),
     bgColor           |-> GetOr(raw, "bgColor", None),
     scale             |-> GetOr(raw, "scale", "1.0"),
     isCore            |-> set_is_core(IF Has(raw, "isCore")
                                         THEN (IF raw.isCore THEN "True" ELSE "False")
                                         ELSE None, raw.id),
     visualizationType |-> GetOr(raw, "visualizationType", None)]

\* UIState(**raw): theme and components are required, every component validates.
UIStateValid(raw) ==
    /\ Has(raw, "theme") /\ raw.theme \in Themes
    /\ Has(raw, "components")
    /\ \A i \in 1..Len(raw.components) : ComponentValid(raw.components[i])

UIState(raw) ==
    [theme      |-> raw.theme,
     components |-> [i \in 1..Len(raw.components) |-> ComponentConfig(raw.components[i])]]

\* AdjustUIRequest(**payload): command has min_length 1.
AdjustUIRequestValid(p) ==
    /\ Has(p, "command") /\ p.command # ""
    /\ Has(p, "current_ui") /\ UIStateValid(p.current_ui)

\* AgentResult (main.py 134-137)
AgentResult(success, message, updatedConfig) ==
    [success |-> success, message |-> message, updatedConfig |-> updatedConfig]

\* raise HTTPException(status_code=..., detail=...) and a normal return
HTTPException(status_code, detail) ==
    [exc |-> TRUE, status_code |-> status_code, detail |-> detail]

Returns(value) == [exc |-> FALSE, value |-> value]

\* truth value of a dict
Truthy(d) == DOMAIN d # {}

(***************************************************************************)
(* _merge_ui_state (main.py 157-181).                                      *)
(***************************************************************************)
\* A slip: comp.dict(exclude_none=True) leaves out the optional fields that
\* are None, so that a fallback's value shows through.
DictExcludeNone(comp) ==
    [f \in {g \in Fields : g \in {"color", "bgColor", "visualizationType"}
                               => comp[g] # None} |-> comp[f]]

\* comp.dict(): every field of the model, set or defaulted, None included.
Dict(comp) == [f \in Fields |-> comp[f]]

\* {**base, **top}: keys of both, top's value where top has the key.
DictMerge(base, top) ==
    [k \in DOMAIN base \cup DOMAIN top |-> IF k \in DOMAIN top THEN top[k] ELSE base[k]]

IdsOf(components) == {components[i].id : i \in 1..Len(components)}

\* {c.id: c for c in components}: the value of a key is the LAST component with
\* that id, the position of a key is that of its FIRST occurrence.
ExistingComponent(components, id) ==
    LET last == CHOOSE i \in 1..Len(components) :
                    /\ components[i].id = id
                    /\ \A j \in (i+1)..Len(components) : components[j].id # id
    IN  components[last]

RECURSIVE ExistingKeys(_)
ExistingKeys(components) ==
    IF components = <<>> THEN <<>>
    ELSE LET front == ExistingKeys(SubSeq(components, 1, Len(components) - 1))
             id == components[Len(components)].id
         IN  IF \E i \in 1..Len(front) : front[i] = id THEN front
             ELSE Append(front, id)

\* Lines 164-171: one merged component per component of the proposal.
MergeComponent(current_components, comp) ==
    IF comp.id \in IdsOf(current_components)
    THEN ComponentConfig(DictMerge(Dict(ExistingComponent(current_components, comp.id)),
                                   Dict(comp)))
    ELSE comp

\* Lines 173-177: the components the proposal does not mention.
RECURSIVE Preserved(_, _, _)
Preserved(keys, current_components, updated_ids) ==
    IF keys = <<>> THEN <<>>
    ELSE LET rest == Preserved(Tail(keys), current_components, updated_ids)
         IN  IF Head(keys) \notin updated_ids
             THEN <<ExistingComponent(current_components, Head(keys))>> \o rest
             ELSE rest

\* updated_config is NoConfig or a UIState.  Line 180: theme is a required
\* Literal["dark", "light"], never falsy, so `updated_config.theme or ...` is it.
_merge_ui_state(current_ui, updated_config) ==
    IF updated_config = NoConfig THEN current_ui
    ELSE [theme      |-> IF updated_config.theme # "" THEN updated_config.theme
                         ELSE current_ui.theme,
          components |->
              [i \in 1..Len(updated_config.components) |->
                  MergeComponent(current_ui.components, updated_config.components[i])]
              \o Preserved(ExistingKeys(current_ui.components), current_ui.components,
                           IdsOf(updated_config.components))]

(***************************************************************************)
(* _call_agent (main.py 184-235).  A model output is                       *)
(*   [kind |-> "raises"]      llm.invoke raised                            *)
(*   [kind |-> "blank"]       response.content is not a str, or is blank   *)
(*   [kind |-> "notjson"]     json.loads raises JSONDecodeError            *)
(*   [kind |-> "nonobject"]   valid JSON that is not an object             *)
(*   [kind |-> "object", parsed |-> d]   a JSON object d                   *)
(* The result is [exc |-> TRUE, status_code, detail] for a raised          *)
(* HTTPException and [exc |-> FALSE, value |-> AgentResult] otherwise.     *)
(* detail holds the fixed part of the message (English for the source's    *)
(* Chinese text).                                                          *)
(***************************************************************************)
_call_agent(llm_handle, out) ==
    IF ~llm_handle THEN HTTPException(500, "OPENAI_API_KEY not configured")
    ELSE IF out.kind = "raises" THEN HTTPException(502, "LangChain agent call failed")
    ELSE IF out.kind = "blank" THEN HTTPException(502, "agent returned no usable content")
    ELSE IF out.kind = "notjson" THEN HTTPException(502, "failed to parse agent response")
    ELSE IF out.kind = "nonobject"   \* parsed.get raises inside the try of 222-235
         THEN HTTPException(502, "agent response does not match expected structure")
    ELSE LET parsed == out.parsed
             hasConfig == Has(parsed, "updatedConfig") /\ Truthy(parsed.updatedConfig)
         IN  IF hasConfig /\ ~UIStateValid(parsed.updatedConfig)
             THEN HTTPException(502, "agent response does not match expected structure")
             ELSE Returns(AgentResult(
                      GetOr(parsed, "success", FALSE),
                      GetOr(parsed, "message", None),
                      IF hasConfig THEN UIState(parsed.updatedConfig) ELSE NoConfig))

(***************************************************************************)
(* adjust_ui (main.py 243-266).                                            *)
(***************************************************************************)
\* A slip: `x if x is not None else default` keeps an empty message.
StrOrNotNone(x, default) == IF x # None THEN x ELSE default

\* `x or default` on an Optional[str]
StrOr(x, default) == IF x # None /\ x # "" THEN x ELSE default

\* The handler as a function of its inputs: [response, merge_calls].
adjust_ui(p, llm_handle, out) ==
    IF ~AdjustUIRequestValid(p)
    THEN \* pydantic's ValidationError is not caught: the server answers 500
         [response |-> [status |-> 500, body |-> [detail |-> "Internal Server Error"]],
          merge_calls |-> 0]
    ELSE LET current_ui == UIState(p.current_ui)
             r == _call_agent(llm_handle, out)
         IN  IF r.exc
             THEN [response |-> [status |-> r.status_code, body |-> [detail |-> r.detail]],
                   merge_calls |-> 0]
             ELSE IF ~r.value.success
             THEN [response |-> [status |-> 200,
                                 body |-> [success |-> FALSE,
                                           message |-> StrOr(r.value.message,
                                                             "Command rejected.")]],
                   merge_calls |-> 0]
             ELSE [response |-> [status |-> 200,
                                 body |-> [success |-> TRUE,
                                           message |-> StrOr(r.value.message,
                                                             "Configuration updated."),
                                           newState |->
                                               _merge_ui_state(
                                                   current_ui,
                                                   IF r.value.updatedConfig # NoConfig
                                                   THEN r.value.updatedConfig
                                                   ELSE current_ui)]],
                   merge_calls |-> 1]

(***************************************************************************)
(* extract_json_from_response (agent.py 31-95).                            *)
(*                                                                         *)
(* A text is a sequence of tokens.  One-character tokens: "{", "}", "x"    *)
(* (any character that is no brace, no whitespace and part of no pattern   *)
(* below), " " and "\n".  Multi-character tokens, one per match of a       *)
(* pattern the code searches for:                                          *)
(*   "J"   ```json   (any case)                                            *)
(*   "T"   ```                                                             *)
(*   "St"  "success": true      "Sf"  "success": false                     *)
(*   "C"   "theme": "dark", "components": []   (the members of a UIState)  *)
(***************************************************************************)
IsSpace(t) == t \in {" ", "\n"}
IsSuccessMatch(t) == t \in {"St", "Sf"}

\* len() of the characters a token stands for
Width(t) ==
    CASE t = "J"  -> 7
      [] t = "T"  -> 3
      [] t = "St" -> 15
      [] t = "Sf" -> 16
      [] t = "C"  -> 33
      [] OTHER    -> 1

RECURSIVE TextLen(_)
TextLen(s) == IF s = <<>> THEN 0 ELSE Width(Head(s)) + TextLen(Tail(s))

RECURSIVE LStrip(_)
LStrip(s) == IF s # <<>> /\ IsSpace(Head(s)) THEN LStrip(Tail(s)) ELSE s

RECURSIVE RStrip(_)
RStrip(s) ==
    IF s # <<>> /\ IsSpace(s[Len(s)]) THEN RStrip(SubSeq(s, 1, Len(s) - 1)) ELSE s

\* str.strip()
Strip(s) == RStrip(LStrip(s))

\* Line 42: re.sub(r"```json\s*", "", raw_content, flags=re.IGNORECASE)
RECURSIVE SubJsonFence(_)
SubJsonFence(s) ==
    IF s = <<>> THEN <<>>
    ELSE IF Head(s) = "J" THEN SubJsonFence(LStrip(Tail(s)))
    ELSE <<Head(s)>> \o SubJsonFence(Tail(s))

\* Number of leading whitespace tokens
SpaceRun(s) == Len(s) - Len(LStrip(s))

\* Line 43: re.sub(r"```\s*$", "", raw_content, flags=re.MULTILINE).  After ```
\* the greedy \s* takes the whole whitespace run; $ matches at the end of the
\* text or just before a newline, so the match backs off to the last newline of
\* the run when the run does not reach the end of the text.
RECURSIVE SubClosingFence(_)
SubClosingFence(s) ==
    IF s = <<>> THEN <<>>
    ELSE IF Head(s) = "T"
    THEN LET rest == Tail(s)
             k == SpaceRun(rest)
             stops == {p \in 0..k : p = Len(rest) \/ (p < Len(rest) /\ rest[p + 1] = "\n")}
         IN  IF stops = {} THEN <<"T">> \o SubClosingFence(rest)
             ELSE LET p == CHOOSE q \in stops : \A r \in stops : r <= q
                  IN  SubClosingFence(SubSeq(rest, p + 1, Len(rest)))
    ELSE <<Head(s)>> \o SubClosingFence(Tail(s))

\* Lines 42-44
StripFences(s) == Strip(SubClosingFence(SubJsonFence(s)))

\* Line 48: re.search(r'"success"\s*:\s*(true|false)', ...): position of the first
\* match, 0 when there is none.
SearchSuccess(s) ==
    IF \E i \in 1..Len(s) : IsSuccessMatch(s[i])
    THEN CHOOSE i \in 1..Len(s) :
             IsSuccessMatch(s[i]) /\ \A j \in 1..(i - 1) : ~IsSuccessMatch(s[j])
    ELSE 0

\* Lines 52-57: from the match backwards to the nearest "{"; the match itself
\* when there is none.
RECURSIVE ScanBack(_, _, _)
ScanBack(s, i, value_pos) ==
    IF i < 1 THEN value_pos
    ELSE IF s[i] = "{" THEN i
    ELSE ScanBack(s, i - 1, value_pos)

\* Lines 60-69 and 78-88: from position i with brace_count, the position of the
\* "}" that brings brace_count to 0; 0 when the loop ends without a break.
RECURSIVE ScanForward(_, _, _)
ScanForward(s, i, brace_count) ==
    IF i > Len(s) THEN 0
    ELSE IF s[i] = "{" THEN ScanForward(s, i + 1, brace_count + 1)
    ELSE IF s[i] = "}"
         THEN IF brace_count - 1 = 0 THEN i
              ELSE ScanForward(s, i + 1, brace_count - 1)
    ELSE ScanForward(s, i + 1, brace_count)

\* Lines 75-88: json_objects, in the order of their opening braces.
RECURSIVE JsonObjects(_, _)
JsonObjects(s, i) ==
    IF i > Len(s) THEN <<>>
    ELSE LET end == IF s[i] = "{" THEN ScanForward(s, i, 0) ELSE 0
         IN  IF end # 0 THEN <<SubSeq(s, i, end)>> \o JsonObjects(s, i + 1)
             ELSE JsonObjects(s, i + 1)

\* A slip: the last complete object instead of the longest.
LastByLen(objects) == objects[Len(objects)]

\* Line 92: max(json_objects, key=len) is the first object of greatest length.
MaxByLen(objects) ==
    LET best == CHOOSE i \in 1..Len(objects) :
                    /\ \A j \in 1..Len(objects) : TextLen(objects[j]) <= TextLen(objects[i])
                    /\ \A j \in 1..(i - 1) : TextLen(objects[j]) < TextLen(objects[i])
    IN  objects[best]

\* Lines 40-95: the branch taken under the local-model flag.
extract_local(raw) ==
    LET s == StripFences(raw)
        value_pos == SearchSuccess(s)
    IN  IF value_pos # 0
        THEN LET start_pos == ScanBack(s, value_pos, value_pos)
                 end == ScanForward(s, start_pos, 0)
             IN  \* end_pos stays start_pos without a break: an empty slice
                 IF end = 0 THEN <<>> ELSE SubSeq(s, start_pos, end)
        ELSE LET json_objects == JsonObjects(s, 1)
             IN  IF json_objects # <<>> THEN MaxByLen(json_objects) ELSE s

\* A slip: the flag is ignored and every output is cleaned as a local one.
extract_ignoring_flag(raw, local) == extract_local(raw)

extract_json_from_response(raw, local) ==
    IF ~local THEN Strip(raw) ELSE extract_local(raw)

(***************************************************************************)
(* parse_agent_response and call_agent (agent.py 98-205).                  *)
(*                                                                         *)
(* json.loads on token texts.  The grammar of the texts the tokens can     *)
(* spell: a document is one object, with whitespace around it; an object   *)
(* is "{" members "}"; a member is "St", "Sf", "C" (each standing for the  *)
(* member(s) with their separating comma) or a nested object, standing for *)
(* the member "updatedConfig": {...}.  Any "x", "J" or "T" makes the text  *)
(* invalid JSON.  A key given twice keeps its last value, as in Python.    *)
(***************************************************************************)
ParseFailed == [ok |-> FALSE, next |-> 0, value |-> <<>>]

\* Members of an object from position i on, up to its closing brace.
RECURSIVE ParseMembers(_, _, _)
ParseMembers(s, i, acc) ==
    IF i > Len(s) THEN ParseFailed
    ELSE CASE s[i] = "}"  -> [ok |-> TRUE, next |-> i + 1, value |-> acc]
           [] s[i] = "St" -> ParseMembers(s, i + 1, DictMerge(acc, [success |-> TRUE]))
           [] s[i] = "Sf" -> ParseMembers(s, i + 1, DictMerge(acc, [success |-> FALSE]))
           [] s[i] = "C"  -> ParseMembers(s, i + 1,
                                 DictMerge(acc, [theme |-> "dark", components |-> <<>>]))
           [] s[i] = "{"  ->
                  LET sub == ParseMembers(s, i + 1, <<>>)
                  IN  IF sub.ok
                      THEN ParseMembers(s, sub.next,
                                        DictMerge(acc, [updatedConfig |-> sub.value]))
                      ELSE ParseFailed
           [] IsSpace(s[i]) -> ParseMembers(s, i + 1, acc)
           [] OTHER -> ParseFailed

\* json.loads(json_str): [ok |-> FALSE] stands for JSONDecodeError.
json_loads(json_str) ==
    LET s == Strip(json_str)
    IN  IF s = <<>> \/ Head(s) # "{" THEN ParseFailed
        ELSE LET r == ParseMembers(s, 2, <<>>)
             IN  IF r.ok /\ r.next = Len(s) + 1 THEN r ELSE ParseFailed

\* The detail of each HTTPException of call_agent (fixed part, in English).
DetailNotConfigured == "model not configured, cannot call the agent"
DetailInvokeFailed == "LangChain agent call failed"
DetailNoContent == "agent returned no usable content"
DetailParseFailed == "failed to parse agent response"
DetailBadStructure == "agent response does not match expected structure"

\* A slip: the parse failure reported with the text of the structure failure.
ParseErrorAsStructureError == HTTPException(502, DetailBadStructure)

\* Lines 109-114: the HTTPException parse_agent_response raises.
ParseError == HTTPException(502, DetailParseFailed)

\* A slip: a text that does not parse is taken for an empty object.
parse_agent_response_lenient(raw, local) ==
    LET r == json_loads(extract_json_from_response(raw, local))
    IN  IF r.ok THEN Returns(r.value) ELSE Returns(<<>>)

\* Lines 98-114: the parsed dictionary, or the HTTPException.
parse_agent_response(raw, local) ==
    LET r == json_loads(extract_json_from_response(raw, local))
    IN  IF r.ok THEN Returns(r.value) ELSE ParseError

\* Lines 176-205: non-blank text goes through extraction, parsing, validation
\* and the construction of the AgentResult: [outcome, stages].
AfterContent(text, local) ==
    LET p == parse_agent_response(text, local)
    IN  IF p.exc
        THEN [outcome |-> p, stages |-> <<"invoke", "extract", "parse">>]
        ELSE LET parsed == p.value
                 hasConfig == Has(parsed, "updatedConfig")
                                  /\ Truthy(parsed.updatedConfig)
             IN  IF hasConfig /\ ~UIStateValid(parsed.updatedConfig)
                 THEN [outcome |-> HTTPException(502, DetailBadStructure),
                       stages |-> <<"invoke", "extract", "parse", "validate">>]
                 ELSE [outcome |-> Returns(AgentResult(
                                       GetOr(parsed, "success", FALSE),
                                       GetOr(parsed, "message", None),
                                       IF hasConfig
                                       THEN UIState(parsed.updatedConfig)
                                       ELSE NoConfig)),
                       stages |-> <<"invoke", "extract", "parse", "validate",
                                    "result">>]

\* A slip: blank text is not stopped at line 173 and goes on to the parser.
AfterInvokeNoBlankCheck(resp, local) ==
    IF resp.kind = "raises"
    THEN [outcome |-> HTTPException(502, DetailInvokeFailed), stages |-> <<"invoke">>]
    ELSE IF resp.kind = "nonstr"
    THEN [outcome |-> HTTPException(502, DetailNoContent), stages |-> <<"invoke">>]
    ELSE AfterContent(resp.text, local)

\* A model response: [kind |-> "raises"], [kind |-> "nonstr"] (a response whose
\* content is not a str), or [kind |-> "text", text |-> tokens].
\* Lines 157-205, after llm.invoke: [outcome, stages].
AfterInvoke(resp, local) ==
    IF resp.kind = "raises"
    THEN [outcome |-> HTTPException(502, DetailInvokeFailed), stages |-> <<"invoke">>]
    ELSE IF resp.kind = "nonstr" \/ Strip(resp.text) = <<>>
    THEN [outcome |-> HTTPException(502, DetailNoContent), stages |-> <<"invoke">>]
    ELSE AfterContent(resp.text, local)

(***************************************************************************)
(* Inputs of one request: the payload the caller posts and what the model  *)
(* answers.  Components as they arrive in JSON: only some keys are set.    *)
(***************************************************************************)
RawComponents ==
    { [id |-> "altitude", visible |-> TRUE, zone |-> "primary", order |-> 1],
      [id |-> "altitude", visible |-> FALSE, zone |-> "secondary", order |-> 2,
       color |-> "red"],
      [id |-> "fuel", visible |-> TRUE, zone |-> "primary", order |-> 5,
       color |-> "amber", label |-> "Fuel", visualizationType |-> "bar"],
      [id |-> "fuel", visible |-> FALSE, zone |-> "secondary", order |-> 10],
      [id |-> "fuel", visible |-> TRUE, order |-> 3] }    \* zone missing: invalid

SeqsUpTo(S, n) == UNION { [1..k -> S] : k \in 0..n }

RawUIStates(n) ==
    { [theme |-> t, components |-> cs] : t \in Themes, cs \in SeqsUpTo(RawComponents, n) }

Payloads ==
    { [command |-> "hide altitude", current_ui |-> ui] : ui \in RawUIStates(MaxPrior) }
    \cup { [command |-> "", current_ui |-> [theme |-> "dark", components |-> <<>>]] }

Messages == {"", "Cannot hide a core parameter."}

ParsedObjects ==
    \* objects without a usable updatedConfig
    { <<>>, [updatedConfig |-> <<>>], [success |-> TRUE], [success |-> FALSE] }
    \cup { [success |-> s, message |-> m] : s \in BOOLEAN, m \in Messages }
    \* objects with an updatedConfig
    \cup { [success |-> s, updatedConfig |-> ui] :
               s \in BOOLEAN, ui \in RawUIStates(MaxProposal) }
    \cup { [success |-> TRUE, message |-> "Done.", updatedConfig |-> ui] :
               ui \in RawUIStates(MaxProposal) }
    \cup { [updatedConfig |-> [theme |-> "blue", components |-> <<>>]] }

ModelOutputs ==
    { [kind |-> k] : k \in {"raises", "blank", "notjson", "nonobject"} }
    \cup { [kind |-> "object", parsed |-> d] : d \in ParsedObjects }

NotInvoked == [kind |-> "not invoked"]

(***************************************************************************)
(* Spec: one request served by adjust_ui; the caller may post the returned *)
(* newState as the current_ui of its next request.                         *)
(***************************************************************************)
ExtractOff ==
    /\ xpc = "off"
    /\ raw_content = <<>>
    /\ is_local_model = FALSE
    /\ extracted = <<>>

NoOutcome == [exc |-> FALSE, value |-> None]

ServeOff ==
    /\ spc = <<>>
    /\ running = 0
    /\ s_status = <<>>

AgentOff ==
    /\ apc = "off"
    /\ a_llm = FALSE
    /\ a_local = FALSE
    /\ a_response = NotInvoked
    /\ invoke_count = 0
    /\ stages = <<>>
    /\ a_outcome = NoOutcome

Init ==
    /\ pc = "request"
    /\ payload \in Payloads
    /\ llm \in BOOLEAN
    /\ model_output = NotInvoked
    /\ merge_calls = 0
    /\ response = [status |-> 0]
    /\ ExtractOff
    /\ AgentOff
    /\ ServeOff

\* llm.invoke is reached only with a valid request and a configured llm.
AdjustUI ==
    /\ pc = "request"
    /\ \E out \in ModelOutputs :
          LET reached == AdjustUIRequestValid(payload) /\ llm
              r == adjust_ui(payload, llm, out)
          IN  /\ model_output' = IF reached THEN out ELSE NotInvoked
              /\ response' = r.response
              /\ merge_calls' = r.merge_calls
    /\ pc' = "responded"
    /\ UNCHANGED <<payload, llm, extractVars, agentVars, serveVars>>

\* The service keeps no state: the caller's next request carries the newState.
NextRequest ==
    /\ pc = "responded"
    /\ Has(response.body, "newState")
    /\ Len(response.body.newState.components) <= MaxPrior
    /\ payload' = [command |-> "hide altitude", current_ui |-> response.body.newState]
    /\ pc' = "request"
    /\ model_output' = NotInvoked
    /\ merge_calls' = 0
    /\ response' = [status |-> 0]
    /\ UNCHANGED <<llm, extractVars, agentVars, serveVars>>

Next == AdjustUI \/ NextRequest

Spec == Init /\ [][Next]_vars

(***************************************************************************)
(* SpecExtract: one call of extract_json_from_response on any text of at   *)
(* most MaxLen tokens.                                                     *)
(***************************************************************************)
ExtractAlphabet == {"{", "}", "St", "x", "\n", "J", "T"}

RequestOff ==
    /\ pc = "off"
    /\ payload = <<>>
    /\ llm = FALSE
    /\ model_output = NotInvoked
    /\ merge_calls = 0
    /\ response = [status |-> 0]

InitExtract ==
    /\ xpc = "input"
    /\ raw_content \in SeqsUpTo(ExtractAlphabet, MaxLen)
    /\ is_local_model \in BOOLEAN
    /\ extracted = <<>>
    /\ RequestOff
    /\ AgentOff
    /\ ServeOff

Extract ==
    /\ xpc = "input"
    /\ extracted' = extract_json_from_response(raw_content, is_local_model)
    /\ xpc' = "returned"
    /\ UNCHANGED <<raw_content, is_local_model, requestVars, agentVars, serveVars>>

NextExtract == Extract

SpecExtract == InitExtract /\ [][NextExtract]_vars

(***************************************************************************)
(* SpecAgent: one call of call_agent, with or without a model, under       *)
(* either flag, on any model response of at most MaxRaw tokens.            *)
(***************************************************************************)
AgentAlphabet == {"{", "}", "St", "Sf", "C", "x"}

ModelResponses ==
    { [kind |-> "raises"], [kind |-> "nonstr"] }
    \cup { [kind |-> "text", text |-> t] : t \in SeqsUpTo(AgentAlphabet, MaxRaw) }

InitAgent ==
    /\ apc = "called"
    /\ a_llm \in BOOLEAN
    /\ a_local \in BOOLEAN
    /\ a_response = NotInvoked
    /\ invoke_count = 0
    /\ stages = <<>>
    /\ a_outcome = NoOutcome
    /\ RequestOff
    /\ ExtractOff
    /\ ServeOff

\* Lines 138-142: no model configured.
RaiseNotConfigured ==
    /\ apc = "called"
    /\ ~a_llm
    /\ a_outcome' = HTTPException(500, DetailNotConfigured)
    /\ apc' = "raised"
    /\ UNCHANGED <<a_llm, a_local, a_response, invoke_count, stages,
                   requestVars, extractVars, serveVars>>

\* Lines 144-156: the prompt is built and llm.invoke is entered.
EnterInvoke ==
    /\ apc = "called"
    /\ a_llm
    /\ invoke_count' = invoke_count + 1
    /\ stages' = <<"invoke">>
    /\ apc' = "invoking"
    /\ UNCHANGED <<a_llm, a_local, a_response, a_outcome, requestVars, extractVars,
                   serveVars>>

\* Lines 157-205: llm.invoke raises or returns, and call_agent runs to its end.
\* A remote response is an object with .content; a local one is text.
InvokeEnds ==
    /\ apc = "invoking"
    /\ \E resp \in ModelResponses :
          /\ resp.kind = "nonstr" => ~a_local
          /\ LET r == AfterInvoke(resp, a_local)
             IN  /\ a_response' = resp
                 /\ a_outcome' = r.outcome
                 /\ stages' = r.stages
                 /\ apc' = IF r.outcome.exc THEN "raised" ELSE "returned"
    /\ UNCHANGED <<a_llm, a_local, invoke_count, requestVars, extractVars, serveVars>>

NextAgent == RaiseNotConfigured \/ EnterInvoke \/ InvokeEnds

SpecAgent == InitAgent /\ [][NextAgent]_vars

(***************************************************************************)
(* SpecServe: NumRequests requests to POST /api/adjust-ui on one server    *)
(* process.  adjust_ui is an `async def` endpoint (main.py 243-244), so    *)
(* its code runs on the event-loop thread; the loop runs one coroutine at  *)
(* a time and switches only at an await.  The handler's only await is      *)
(* `await request.json()` (245); _call_agent and llm.invoke (250, 201) are *)
(* plain synchronous calls made on that thread.                            *)
(***************************************************************************)
Requests == 1..NumRequests

InitServe ==
    /\ spc = [r \in Requests |-> "new"]
    /\ running = 0
    /\ s_status = [r \in Requests |-> 0]
    /\ pc = "off"
    /\ payload = <<>>
    /\ llm \in BOOLEAN
    /\ model_output = NotInvoked
    /\ merge_calls = 0
    /\ response = [status |-> 0]
    /\ ExtractOff
    /\ AgentOff

\* Line 245: the coroutine starts and suspends at `await request.json()`.
StartRequest(r) ==
    /\ running = 0
    /\ spc[r] = "new"
    /\ spc' = [spc EXCEPT ![r] = "awaiting_body"]
    /\ UNCHANGED <<running, s_status, requestVars, extractVars, agentVars>>

\* Lines 245-250, 184-201: the body is there, the loop resumes the coroutine,
\* which runs without another await into _call_agent: HTTPException 500 when
\* llm is None, else the thread enters llm.invoke.
ResumeRequest(r) ==
    /\ running = 0
    /\ spc[r] = "awaiting_body"
    /\ IF llm
       THEN /\ spc' = [spc EXCEPT ![r] = "invoking"]
            /\ running' = r
            /\ UNCHANGED s_status
       ELSE /\ spc' = [spc EXCEPT ![r] = "done"]
            /\ s_status' = [s_status EXCEPT ![r] = 500]
            /\ UNCHANGED running
    /\ UNCHANGED <<requestVars, extractVars, agentVars>>

\* Lines 201-266: llm.invoke raises or returns; the handler runs to its end
\* (502 for a failed call or an unusable answer, else 200) and the coroutine
\* finishes, which gives the thread back to the loop.
InvokeReturns(r) ==
    /\ running = r
    /\ spc[r] = "invoking"
    /\ \E status \in {200, 502} : s_status' = [s_status EXCEPT ![r] = status]
    /\ spc' = [spc EXCEPT ![r] = "done"]
    /\ running' = 0
    /\ UNCHANGED <<requestVars, extractVars, agentVars>>

\* What the loop can do for request r
ServeStep(r) == StartRequest(r) \/ ResumeRequest(r) \/ InvokeReturns(r)

NextServe == \E r \in Requests : ServeStep(r)

SpecServe == InitServe /\ [][NextServe]_vars

\* C10: while one request is inside llm.invoke, another request that has not
\* been answered can still be started and carried on by the serving layer.
Pending(r) == spc[r] \in {"new", "awaiting_body"}

C10_InvokeDoesNotBlock ==
    \A a, b \in Requests :
        (a # b /\ spc[a] = "invoking" /\ Pending(b)) => ENABLED ServeStep(b)

(***************************************************************************)
(* The request as the claims see it.                                       *)
(***************************************************************************)
CoreIds == {"altitude", "airspeed", "rpm", "phase"}

\* The handler answered with a newState.
Served == pc = "responded" /\ response.status = 200 /\ Has(response.body, "newState")

\* The model answered with a JSON object that _call_agent turned into an AgentResult.
AgentAnswered ==
    /\ pc = "responded"
    /\ model_output.kind = "object"
    /\ ~_call_agent(llm, model_output).exc

\* The model's answer carried an updatedConfig that became a UIState.
Proposed ==
    /\ AgentAnswered
    /\ Has(model_output.parsed, "updatedConfig")
    /\ Truthy(model_output.parsed.updatedConfig)

PriorState == UIState(payload.current_ui)
RawProposal == model_output.parsed.updatedConfig
ProposalState == UIState(RawProposal)
NewState == response.body.newState

Occurrences(components, id) ==
    Cardinality({i \in 1..Len(components) : components[i].id = id})

CoreSafe(ui) ==
    \A i \in 1..Len(ui.components) :
        ui.components[i].id \in CoreIds =>
            ui.components[i].visible /\ ui.components[i].zone = "primary"

\* C1: every UIState returned to a caller as newState has each core component
\* (altitude, airspeed, rpm, phase) visible and in the primary zone, whatever
\* the prior state and whatever the model proposed.
C1_CoreSafety == Served => CoreSafe(NewState)

\* C2: the merged component list holds every id of the prior state or of the
\* proposal exactly once, and no other id.
C2_MergeTotal ==
    (Served /\ Proposed) =>
        /\ IdsOf(NewState.components)
               = IdsOf(PriorState.components) \cup IdsOf(ProposalState.components)
        /\ \A id \in IdsOf(NewState.components) : Occurrences(NewState.components, id) = 1

\* C3: for an id in both the prior state and the proposal, the merged component
\* has the proposal's value for each field the proposal sets and the prior
\* component's value for every field the proposal does not set.
C3_FieldOverlay ==
    (Served /\ Proposed) =>
        \A i \in 1..Len(RawProposal.components) :
            LET raw == RawProposal.components[i]
            IN  raw.id \in IdsOf(PriorState.components) =>
                    \A f \in Fields :
                        NewState.components[i][f] =
                            IF Has(raw, f) THEN ProposalState.components[i][f]
                            ELSE ExistingComponent(PriorState.components, raw.id)[f]

\* C4: every component of the prior state whose id the proposal does not mention
\* is in the merged state with all its fields, after all the components the
\* proposal mentions and in the prior state's relative order.
UnmentionedAt(i) == PriorState.components[i].id \notin IdsOf(ProposalState.components)

AfterMentioned == (Len(ProposalState.components) + 1)..Len(NewState.components)

C4_UnmentionedPreserved ==
    (Served /\ Proposed) =>
        LET P == PriorState.components
            M == NewState.components
            kept == {i \in 1..Len(P) : UnmentionedAt(i)}
        IN  /\ \A i \in kept : \E j \in AfterMentioned : M[j] = P[i]
            /\ \A i1, i2 \in kept :
                   (i1 < i2 /\ P[i1] # P[i2]) =>
                       \E j1, j2 \in AfterMentioned :
                           j1 < j2 /\ M[j1] = P[i1] /\ M[j2] = P[i2]

\* C9: when the agent result has success = false, the response is exactly
\* {success: false, message} with a non-empty message (the agent's, or
\* "Command rejected." when it gave none), without newState, and
\* _merge_ui_state was not called.
Rejected == AgentAnswered /\ ~GetOr(model_output.parsed, "success", FALSE)

C9_RejectedResponse ==
    Rejected =>
        /\ response.status = 200
        /\ DOMAIN response.body = {"success", "message"}
        /\ response.body.success = FALSE
        /\ response.body.message # ""
        /\ response.body.message # None
        /\ response.body.message =
               IF GetOr(model_output.parsed, "message", "") # ""
               THEN model_output.parsed.message ELSE "Command rejected."
        /\ merge_calls = 0

\* C9 witness: a rejection that came with an updatedConfig and an empty message.
C9_Witness ==
    /\ Rejected
    /\ Proposed
    /\ response.body.message = "Command rejected."

C9_WitnessEmptyMessage ==
    /\ Rejected
    /\ GetOr(model_output.parsed, "message", None) = ""

(***************************************************************************)
(* Claims about extract_json_from_response, checked under SpecExtract.     *)
(* Balanced spans are defined here by brace depth, independently of the    *)
(* scanning loops of the code.                                             *)
(***************************************************************************)
Count(s, i, k, t) == Cardinality({n \in i..k : s[n] = t})
Depth(s, i, k) == Count(s, i, k, "{") - Count(s, i, k, "}")

\* s[i..j] opens at i and closes, for the first time, at j.
Balanced(s, i, j) ==
    /\ i < j
    /\ s[i] = "{"
    /\ s[j] = "}"
    /\ Depth(s, i, j) = 0
    /\ \A k \in i..(j - 1) : Depth(s, i, k) > 0

BalancedSpans(s) == {sp \in (1..Len(s)) \X (1..Len(s)) : Balanced(s, sp[1], sp[2])}
Span(s, sp) == SubSeq(s, sp[1], sp[2])

Cleaned == StripFences(raw_content)
NoSuccessMatch(s) == \A i \in 1..Len(s) : ~IsSuccessMatch(s[i])
LocalReturned == xpc = "returned" /\ is_local_model

\* s holds exactly one top-level object, s[i..j], with a "success" member of its
\* own: no brace and no "success" pattern outside it.
OneObjectWithSuccess(s, i, j) ==
    /\ Balanced(s, i, j)
    /\ \A n \in (1..Len(s)) \ (i..j) : s[n] \notin {"{", "}"} /\ ~IsSuccessMatch(s[n])
    /\ \E n \in (i + 1)..(j - 1) : IsSuccessMatch(s[n]) /\ Depth(s, i, n) = 1

\* C5: under the local-model flag, a text holding exactly one top-level balanced
\* object that carries a concrete "success" member (anywhere among its members)
\* is extracted to exactly that object.
C5_ExtractWholeObject ==
    LocalReturned =>
        \A i, j \in 1..Len(Cleaned) :
            OneObjectWithSuccess(Cleaned, i, j) => extracted = SubSeq(Cleaned, i, j)

\* C6: under the local-model flag, with no "success" pattern in the text and two
\* or more balanced spans, the returned text is a balanced span of the greatest
\* character count among all balanced spans.
FallbackCase ==
    /\ LocalReturned
    /\ NoSuccessMatch(Cleaned)
    /\ Cardinality(BalancedSpans(Cleaned)) >= 2

C6_WitnessLongFirst ==
    /\ FallbackCase
    /\ \E long, short \in BalancedSpans(Cleaned) :
           /\ long[2] < short[1]
           /\ TextLen(Span(Cleaned, short)) < TextLen(Span(Cleaned, long))
           /\ extracted = Span(Cleaned, long)

(***************************************************************************)
(* Claims about call_agent, checked under SpecAgent.                       *)
(***************************************************************************)
CallEnded == apc \in {"returned", "raised"}

\* The model answered with non-blank text, so that the extractor ran on it.
ExtractorRan ==
    /\ CallEnded
    /\ a_response.kind = "text"
    /\ Strip(a_response.text) # <<>>

ExtractedText == extract_json_from_response(a_response.text, a_local)

\* Valid JSON among the token texts, stated without the parser: one object that
\* spans the whole (trimmed) text and holds no character foreign to JSON.
ValidJsonText(t) ==
    LET s == Strip(t)
    IN  /\ Len(s) >= 2
        /\ Balanced(s, 1, Len(s))
        /\ \A i \in 1..Len(s) : s[i] \notin {"x", "J", "T"}

Cause ==
    IF ~a_llm THEN "ModelNotConfigured"
    ELSE IF a_response.kind = "raises" THEN "ModelInvocationFailed"
    ELSE IF a_response.kind = "nonstr" \/ Strip(a_response.text) = <<>>
         THEN "ModelOutputEmpty"
    ELSE IF ~ValidJsonText(ExtractedText) THEN "ResponseMalformed"
    ELSE "SchemaViolation"

\* What a caller can do with the error alone: branch on status code and detail.
CauseShown(status_code, detail) ==
    CASE status_code = 500 /\ detail = DetailNotConfigured -> "ModelNotConfigured"
      [] status_code = 502 /\ detail = DetailInvokeFailed  -> "ModelInvocationFailed"
      [] status_code = 502 /\ detail = DetailNoContent     -> "ModelOutputEmpty"
      [] status_code = 502 /\ detail = DetailParseFailed   -> "ResponseMalformed"
      [] status_code = 502 /\ detail = DetailBadStructure  -> "SchemaViolation"
      [] OTHER -> "unknown"

C11_NoSpanReturnsText ==
    (LocalReturned /\ BalancedSpans(Cleaned) = {}) => extracted = Cleaned

\* The trimmed text, stated without str.strip: t is the part of s between its
\* first and its last token that is no whitespace.
IsTrimOf(t, s) ==
    IF \A n \in 1..Len(s) : IsSpace(s[n]) THEN t = <<>>
    ELSE \E i, j \in 1..Len(s) :
            /\ i <= j
            /\ ~IsSpace(s[i]) /\ ~IsSpace(s[j])
            /\ \A n \in 1..(i - 1) : IsSpace(s[n])
            /\ \A n \in (j + 1)..Len(s) : IsSpace(s[n])
            /\ t = SubSeq(s, i, j)

\* C12: with is_local_model = false the result is the input with leading and
\* trailing whitespace removed, for every input: fences stay, and neither the
\* "success" search nor the brace scan takes anything away.
C12_RemoteIsTrimOnly ==
    (xpc = "returned" /\ ~is_local_model) => IsTrimOf(extracted, raw_content)

\* C12 witness: a fenced text with whitespace around it and an object inside,
\* which the local branch would have cut down, comes back trimmed only.
C12_Witness ==
    /\ xpc = "returned"
    /\ ~is_local_model
    /\ raw_content # <<>>
    /\ IsSpace(raw_content[1])
    /\ \E n \in 1..Len(raw_content) : raw_content[n] \in {"J", "T"}
    /\ \E n \in 1..Len(raw_content) : raw_content[n] = "{"
    /\ extracted # raw_content
    /\ extracted # extract_local(raw_content)
    /\ \E n \in 1..Len(extracted) : extracted[n] \in {"J", "T"}

(***************************************************************************)
(* Pipeline ordering in call_agent, under SpecAgent.                       *)
(***************************************************************************)
InvokeFailed == CallEnded /\ a_response.kind = "raises"

InvokeBlank ==
    /\ CallEnded
    /\ a_response.kind \in {"nonstr", "text"}
    /\ a_response.kind = "text" => \A n \in 1..Len(a_response.text) :
                                       IsSpace(a_response.text[n])

\* C13: within one call llm.invoke is entered at most once; it is never entered
\* when no model is configured (the call ends with ModelNotConfigured); and when
\* invoke fails or returns blank text the call ends with ModelInvocationFailed
\* or ModelOutputEmpty and no extraction, parsing or AgentResult construction
\* has taken place.
C13_PipelineOrdering ==
    /\ invoke_count <= 1
    /\ ~a_llm => /\ invoke_count = 0
                 /\ apc \in {"called", "raised"}
                 /\ stages = <<>>
                 /\ apc = "raised" => a_outcome = HTTPException(500, DetailNotConfigured)
    /\ InvokeFailed => /\ apc = "raised"
                       /\ a_outcome = HTTPException(502, DetailInvokeFailed)
                       /\ stages = <<"invoke">>
    /\ InvokeBlank => /\ apc = "raised"
                      /\ a_outcome = HTTPException(502, DetailNoContent)
                      /\ stages = <<"invoke">>
    /\ CallEnded /\ a_llm => invoke_count = 1

\* C13 witness: the model returned blank text and the call has ended.
C13_Witness ==
    /\ InvokeBlank
    /\ a_response.kind = "text"
    /\ invoke_count = 1
    /\ apc = "raised"

\* C13 witness: the model call raised.
C13_WitnessInvokeFailed == InvokeFailed /\ invoke_count = 1

\* C13 witness: no model, the call ended without entering invoke.
C13_WitnessNotConfigured == apc = "raised" /\ ~a_llm /\ invoke_count = 0

(***************************************************************************)
(* An accepted command without a proposed config, under Spec.              *)
(***************************************************************************)
\* The agent accepted the command and proposed no config; the response is 200.
AcceptedWithoutConfig ==
    /\ Served
    /\ AgentAnswered
    /\ ~Proposed
    /\ _call_agent(llm, model_output).value.success
    /\ _call_agent(llm, model_output).value.updatedConfig = NoConfig

\* C14: when the agent result has success = true and no updatedConfig, adjust_ui
\* calls _merge_ui_state once, on the current state and itself, and newState is
\* the caller's current_ui as validated: same components, same field values,
\* same order, same theme, also when an id is listed more than once.  For every
\* valid current_ui P, _merge_ui_state(P, P) = P and _merge_ui_state(P, None) = P.
C14_AcceptedWithoutConfig ==
    /\ AcceptedWithoutConfig =>
           /\ merge_calls = 1
           /\ NewState = PriorState
           /\ NewState.theme = payload.current_ui.theme
           /\ Len(NewState.components) = Len(payload.current_ui.components)
           /\ \A i \in 1..Len(NewState.components) :
                  NewState.components[i] = ComponentConfig(payload.current_ui.components[i])
    /\ (pc = "responded" /\ AdjustUIRequestValid(payload)) =>
           /\ _merge_ui_state(PriorState, PriorState) = PriorState
           /\ _merge_ui_state(PriorState, NoConfig) = PriorState

\* C14 witness: an accepted command without a config, on a current_ui that lists
\* one id twice with different field values.
C14_Witness ==
    /\ AcceptedWithoutConfig
    /\ Len(PriorState.components) = 2
    /\ PriorState.components[1].id = PriorState.components[2].id
    /\ PriorState.components[1] # PriorState.components[2]
    /\ PriorState.components[1].color # PriorState.components[2].color

====
